---- MODULE Spec2Model ----
(***************************************************************************)
(* Model of the GitHub search logic of                                     *)
(* src/components/tutorials/github/index.js: a kea logic with the actions  *)
(* setUsername / setRepositories / setFetchError, four reducers, the       *)
(* sortedRepositories selector, the asynchronous setUsername listener and  *)
(* the afterMount event.                                                   *)
(*                                                                         *)
(* Every dispatch of setUsername starts one run of the listener.  A run    *)
(* is suspended at `await breakpoint(300)`, at `await fetch(url)` and at   *)
(* `await response.json()`; each resumption is one action of the model.    *)
(* Time is a millisecond clock, started at the mount, that advances in     *)
(* steps of TickMs.                                                        *)
(***************************************************************************)
EXTENDS Integers, Sequences, FiniteSets, TLC

VARIABLES username, repositories, isLoading, error, sortedRepositories,
          calls, requests, now, mounted

vars == <<username, repositories, isLoading, error, sortedRepositories,
          calls, requests, now, mounted>>

(* ---------------------------- bounds ----------------------------------- *)
MaxCalls == 3
MaxTime == 600
TickMs == 100
MaxRepos == 3

(* ------------------------ program constants ---------------------------- *)
DefaultUsername == "keajs"
DebounceMs == 300
StatusOk == 200

null == "null"

Usernames == {"keajs", "a"}
StarCounts == {5, 10}
NotFoundMessage == "Not Found"
NetworkErrorMessage == "Failed to fetch"

(* A repository record of the API: its id and its star count.  The ids of  *)
(* a response body are its positions, so equal star counts stay told apart *)
RepoList(stars) == [k \in 1..Len(stars) |-> [id |-> k, stargazers_count |-> stars[k]]]

StarSeqs == UNION {[1..n -> StarCounts] : n \in 0..MaxRepos}

Bodies == {RepoList(s) : s \in StarSeqs}

(* What the server can answer: 200 with a JSON array, an error status with *)
(* a JSON {message}, or a body that response.json() cannot parse.          *)
NoResponse == [kind |-> "none", status |-> 0, valid |-> FALSE, body |-> <<>>, message |-> ""]

OkResponse(b) == [kind |-> "response", status |-> StatusOk, valid |-> TRUE, body |-> b, message |-> ""]

ErrorResponse == [kind |-> "response", status |-> 404, valid |-> TRUE, body |-> <<>>, message |-> NotFoundMessage]

MalformedResponse == [kind |-> "response", status |-> 502, valid |-> FALSE, body |-> <<>>, message |-> ""]

Rejection == [kind |-> "reject", status |-> 0, valid |-> FALSE, body |-> <<>>, message |-> NetworkErrorMessage]

Responses == {OkResponse(b) : b \in Bodies} \cup {ErrorResponse, MalformedResponse}

(* ----------------------------- reducers -------------------------------- *)
(* mutant: the reducer takes the payload of every action *)
usernameReducerAnyAction(state, type, payload) == payload

usernameReducer(state, type, payload) ==
    IF type = "setUsername" THEN payload ELSE state

repositoriesReducer(state, type, payload) ==
    IF type = "setUsername" THEN <<>>
    ELSE IF type = "setRepositories" THEN payload
    ELSE state

(* mutant: setFetchError leaves isLoading raised *)
isLoadingReducerErrorKeepsLoading(state, type) ==
    IF type = "setUsername" THEN TRUE
    ELSE IF type = "setRepositories" THEN FALSE
    ELSE state

isLoadingReducer(state, type) ==
    IF type = "setUsername" THEN TRUE
    ELSE IF type \in {"setRepositories", "setFetchError"} THEN FALSE
    ELSE state

(* mutant: setUsername leaves the previous error in place *)
errorReducerKeepsError(state, type, payload) ==
    IF type = "setFetchError" THEN payload ELSE state

errorReducer(state, type, payload) ==
    IF type = "setUsername" THEN null
    ELSE IF type = "setFetchError" THEN payload
    ELSE state

(* ----------------------------- selector -------------------------------- *)
(* [...repositories].sort((a, b) => b.stargazers_count - a.stargazers_count) *)
(* Array.prototype.sort is stable: an element is placed after every        *)
(* element that does not compare greater than it.                          *)
(* mutant: an element overtakes the elements it compares equal to *)
RECURSIVE InsertSortedUnstable(_, _)
InsertSortedUnstable(x, s) ==
    IF s = <<>> THEN <<x>>
    ELSE IF Head(s).stargazers_count - x.stargazers_count <= 0
         THEN <<x>> \o s
         ELSE <<Head(s)>> \o InsertSortedUnstable(x, Tail(s))

RECURSIVE InsertSorted(_, _)
InsertSorted(x, s) ==
    IF s = <<>> THEN <<x>>
    ELSE IF Head(s).stargazers_count - x.stargazers_count < 0
         THEN <<x>> \o s
         ELSE <<Head(s)>> \o InsertSorted(x, Tail(s))

RECURSIVE SortFrom(_, _)
SortFrom(done, rest) ==
    IF rest = <<>> THEN done
    ELSE SortFrom(InsertSorted(Head(rest), done), Tail(rest))

sortedRepositoriesSelector(repos) == SortFrom(<<>>, repos)

(* One dispatch: every reducer sees the action, then the selector is       *)
(* recomputed from the new repositories.                                   *)
Dispatch(type, payload) ==
    /\ username' = usernameReducer(username, type, payload)
    /\ repositories' = repositoriesReducer(repositories, type, payload)
    /\ isLoading' = isLoadingReducer(isLoading, type)
    /\ error' = errorReducer(error, type, payload)
    /\ sortedRepositories' = sortedRepositoriesSelector(repositories')

(* the requests issued by run i *)
RequestsOf(i) == {k \in 1..Len(requests) : requests[k].call = i}

(* ----------------------------- listener -------------------------------- *)
(* mutant: a plain delay, no run ever breaks *)
breakpointNeverBreaks(i) == FALSE

(* breakpoint: does run i break, i.e. was setUsername dispatched again     *)
(* after run i started?  Runs are numbered by dispatch order.              *)
breakpoint(i) == i # Len(calls)

NewCall(u) == [username |-> u, pc |-> "debounce", start |-> now, resp |-> NoResponse, sent |-> <<>>]

(* actions.setUsername(u): reducers run, then the listener starts and      *)
(* suspends in breakpoint(300).                                            *)
DispatchSetUsername(u) ==
    /\ Dispatch("setUsername", u)
    /\ calls' = Append(calls, NewCall(u))
    /\ UNCHANGED <<requests, now>>

(* mutant: the logic mounts without fetching anything *)
afterMountNoDispatch ==
    /\ ~mounted
    /\ mounted' = TRUE
    /\ UNCHANGED <<username, repositories, isLoading, error, sortedRepositories,
                   calls, requests, now>>

afterMount ==
    /\ ~mounted
    /\ mounted' = TRUE
    /\ DispatchSetUsername(username)

setUsername(u) ==
    /\ mounted
    /\ Len(calls) < MaxCalls
    /\ UNCHANGED mounted
    /\ DispatchSetUsername(u)

(* The 300 ms timer of breakpoint(300) fires.  A superseded run breaks;    *)
(* otherwise the url is built from the captured username and fetch starts. *)
DebounceElapsed(i) ==
    /\ calls[i].pc = "debounce"
    /\ now - calls[i].start >= DebounceMs
    /\ IF breakpoint(i)
       THEN /\ calls' = [calls EXCEPT ![i].pc = "cancelled"]
            /\ UNCHANGED requests
       ELSE /\ calls' = [calls EXCEPT ![i].pc = "fetching"]
            /\ requests' = Append(requests, [call |-> i, username |-> calls[i].username])
    /\ UNCHANGED <<username, repositories, isLoading, error, sortedRepositories, now, mounted>>

(* mutant: the catch branch swallows the failure *)
FetchRejectsSilently(i) ==
    /\ calls[i].pc = "fetching"
    /\ calls' = [calls EXCEPT ![i].pc = "failed", ![i].resp = Rejection]
    /\ UNCHANGED <<username, repositories, isLoading, error, sortedRepositories,
                   requests, now, mounted>>

(* mutant: the catch branch reports the failure and fetches again *)
FetchRejectsRetries(i) ==
    /\ calls[i].pc = "fetching"
    /\ RequestsOf(i) # {} /\ Cardinality(RequestsOf(i)) < 2
    /\ Dispatch("setFetchError", Rejection.message)
    /\ calls' = [calls EXCEPT ![i].sent = Append(@, "setFetchError")]
    /\ requests' = Append(requests, [call |-> i, username |-> calls[i].username])
    /\ UNCHANGED <<now, mounted>>

(* fetch(url) rejects: the catch branch dispatches setFetchError and       *)
(* returns.                                                                *)
FetchRejects(i) ==
    /\ calls[i].pc = "fetching"
    /\ Dispatch("setFetchError", Rejection.message)
    /\ calls' = [calls EXCEPT ![i].pc = "failed", ![i].resp = Rejection,
                              ![i].sent = Append(@, "setFetchError")]
    /\ UNCHANGED <<requests, now, mounted>>

(* mutant: the response is handled without the breakpoint() of line 71 *)
FetchResolvesNoBreakpoint(i, r) ==
    /\ calls[i].pc = "fetching"
    /\ calls' = [calls EXCEPT ![i].pc = "parsing", ![i].resp = r]
    /\ UNCHANGED <<username, repositories, isLoading, error, sortedRepositories,
                   requests, now, mounted>>

(* fetch(url) resolves with a response: breakpoint() breaks a superseded   *)
(* run, otherwise the run suspends in response.json().                     *)
FetchResolves(i, r) ==
    /\ calls[i].pc = "fetching"
    /\ IF breakpoint(i)
       THEN calls' = [calls EXCEPT ![i].pc = "cancelled"]
       ELSE calls' = [calls EXCEPT ![i].pc = "parsing", ![i].resp = r]
    /\ UNCHANGED <<username, repositories, isLoading, error, sortedRepositories,
                   requests, now, mounted>>

(* response.json() resolves: the status decides the dispatched action.     *)
JsonParsed(i) ==
    /\ calls[i].pc = "parsing"
    /\ calls[i].resp.valid
    /\ IF calls[i].resp.status = StatusOk
       THEN /\ Dispatch("setRepositories", calls[i].resp.body)
            /\ calls' = [calls EXCEPT ![i].pc = "done", ![i].sent = Append(@, "setRepositories")]
       ELSE /\ Dispatch("setFetchError", calls[i].resp.message)
            /\ calls' = [calls EXCEPT ![i].pc = "done", ![i].sent = Append(@, "setFetchError")]
    /\ UNCHANGED <<requests, now, mounted>>

(* response.json() rejects: the exception leaves the listener.             *)
JsonRejects(i) ==
    /\ calls[i].pc = "parsing"
    /\ ~calls[i].resp.valid
    /\ calls' = [calls EXCEPT ![i].pc = "threw"]
    /\ UNCHANGED <<username, repositories, isLoading, error, sortedRepositories,
                   requests, now, mounted>>

(* Time passes.  The clock counts the milliseconds since the mount: no     *)
(* timer exists before it.                                                 *)
Tick ==
    /\ mounted
    /\ now + TickMs <= MaxTime
    /\ now' = now + TickMs
    /\ UNCHANGED <<username, repositories, isLoading, error, sortedRepositories,
                   calls, requests, mounted>>

Init ==
    /\ username = DefaultUsername
    /\ repositories = <<>>
    /\ isLoading = FALSE
    /\ error = null
    /\ sortedRepositories = sortedRepositoriesSelector(<<>>)
    /\ calls = <<>>
    /\ requests = <<>>
    /\ now = 0
    /\ mounted = FALSE

Next ==
    \/ afterMount
    \/ \E u \in Usernames : setUsername(u)
    \/ \E i \in 1..Len(calls) : DebounceElapsed(i)
    \/ \E i \in 1..Len(calls) : FetchRejects(i)
    \/ \E i \in 1..Len(calls) : \E r \in Responses : FetchResolves(i, r)
    \/ \E i \in 1..Len(calls) : JsonParsed(i)
    \/ \E i \in 1..Len(calls) : JsonRejects(i)
    \/ Tick

Spec == Init /\ [][Next]_vars

(* The event loop runs every due timer callback and every settled promise  *)
(* continuation, React runs afterMount, and time passes.  Nothing obliges  *)
(* the user to type or the network to answer.                              *)
FairSpec ==
    /\ Spec
    /\ WF_vars(afterMount)
    /\ WF_vars(Tick)
    /\ \A i \in 1..MaxCalls : WF_vars(i <= Len(calls) /\ DebounceElapsed(i))
    /\ \A i \in 1..MaxCalls : WF_vars(i <= Len(calls) /\ JsonParsed(i))
    /\ \A i \in 1..MaxCalls : WF_vars(i <= Len(calls) /\ JsonRejects(i))

(* ------------------------- shared vocabulary --------------------------- *)
Runs == 1..Len(calls)

Latest == Len(calls)

Terminal == {"cancelled", "failed", "done", "threw"}

(* ------------------------------- C1 ------------------------------------ *)
(* C1: when the response of a run arrives after a later setUsername was    *)
(* dispatched, the run breaks there: repositories, error and isLoading     *)
(* keep their values, the run dispatches nothing, and a run that broke     *)
(* never acts again.                                                       *)
C1_StaleResponseDiscarded ==
    [][\A i \in Runs :
          /\ (calls[i].pc = "fetching" /\ i < Latest /\ calls'[i].pc \notin {"fetching", "failed"})
                => /\ calls'[i].pc = "cancelled"
                   /\ calls'[i].sent = <<>>
                   /\ UNCHANGED <<repositories, error, isLoading>>
          /\ calls[i].pc = "cancelled" => calls'[i] = calls[i]]_vars

(* A run that issued its request and then broke: its response came late.   *)
C1_Witness ==
    \E i \in Runs : /\ calls[i].pc = "cancelled"
                    /\ RequestsOf(i) # {}
                    /\ i < Latest

(* ------------------------------- C2 ------------------------------------ *)
Burst == \A i \in 1..(Len(calls) - 1) : calls[i + 1].start - calls[i].start < DebounceMs

NoneDebouncing == \A i \in Runs : calls[i].pc # "debounce"

(* C2: no request is ever issued for a run whose successor was dispatched  *)
(* within 300 ms of it; and when every dispatch followed the previous one  *)
(* within 300 ms and all timers have fired, exactly one request has been   *)
(* issued, for the last username.                                          *)
C2_DebounceLastValueOnly ==
    /\ \A k \in 1..Len(requests) :
          requests[k].call < Latest =>
              calls[requests[k].call + 1].start - calls[requests[k].call].start >= DebounceMs
    /\ (Latest >= 1 /\ Burst /\ NoneDebouncing) =>
          requests = <<[call |-> Latest, username |-> calls[Latest].username]>>

C2_Witness ==
    /\ Latest >= 3
    /\ Burst
    /\ NoneDebouncing
    /\ calls[1].username # calls[2].username
    /\ calls[2].username # calls[3].username
    /\ calls[2].start > calls[1].start
    /\ Len(requests) = 1

(* ------------------------------- C3 ------------------------------------ *)
Quiescent == mounted /\ \A i \in Runs : calls[i].pc \in Terminal

(* repositories, error, isLoading as one run alone leaves them *)
OutcomeOf(c) ==
    IF c.pc = "done" /\ c.resp.status = StatusOk THEN <<c.resp.body, null, FALSE>>
    ELSE IF c.pc = "done" THEN <<<<>>, c.resp.message, FALSE>>
    ELSE IF c.pc = "failed" THEN <<<<>>, c.resp.message, FALSE>>
    ELSE <<<<>>, null, TRUE>>

(* C3: once every run has ended, repositories, error and isLoading are     *)
(* those of the outcome of the most recent setUsername alone.              *)
C3_LastCallWins ==
    Quiescent => <<repositories, error, isLoading>> = OutcomeOf(calls[Latest])

(* ------------------------------- C4 ------------------------------------ *)
(* C4: repositories is never non-empty while error is set.                 *)
C4_ResultsErrorExclusive == ~(repositories # <<>> /\ error # null)

(* ------------------------------- C5 ------------------------------------ *)
(* C5: every dispatch of setUsername, in that one step, sets username to   *)
(* the new value, empties repositories, nulls error and raises isLoading;  *)
(* the step issues no request and leaves the new run in its debounce wait. *)
C5_SetUsernameResets ==
    [][Len(calls') = Len(calls) + 1 =>
          /\ username' = calls'[Len(calls')].username
          /\ repositories' = <<>>
          /\ error' = null
          /\ isLoading' = TRUE
          /\ requests' = requests
          /\ calls'[Len(calls')].pc = "debounce"]_vars

(* setUsername re-entered with the same value after an error was shown:    *)
(* run 1 ended with an error and did not act after run 2 started.          *)
C5_Witness ==
    /\ Latest = 2
    /\ calls[1].pc \in {"done", "failed"}
    /\ calls[1].sent = <<"setFetchError">>
    /\ calls[2].pc = "debounce"
    /\ calls[2].username = calls[1].username
    /\ isLoading /\ error = null /\ repositories = <<>>

(* ------------------------------- C6 ------------------------------------ *)
(* the step in which run i, the most recent one, finishes parsing *)
LatestParsed(i) == i = Latest /\ calls[i].pc = "parsing" /\ calls'[i].pc = "done"

(* C6: when the response of the most recent setUsername has status 200,    *)
(* handling it leaves repositories equal to the parsed list, isLoading     *)
(* false and error null.                                                   *)
C6_SuccessState ==
    [][\A i \in Runs :
          (LatestParsed(i) /\ calls[i].resp.status = StatusOk) =>
              /\ repositories' = calls[i].resp.body
              /\ isLoading' = FALSE
              /\ error' = null]_vars

(* ------------------------------- C7 ------------------------------------ *)
(* C7: when the response of the most recent setUsername has a non-success  *)
(* status, handling it leaves error equal to the server's message,         *)
(* isLoading false and sortedRepositories empty.                           *)
C7_ErrorState ==
    [][\A i \in Runs :
          (LatestParsed(i) /\ calls[i].resp.status # StatusOk) =>
              /\ error' = calls[i].resp.message
              /\ isLoading' = FALSE
              /\ sortedRepositories' = <<>>]_vars

(* ------------------------------- C8 ------------------------------------ *)
(* C8: when the fetch of a run rejects, error becomes the failure message  *)
(* and isLoading false, the run has dispatched setFetchError exactly once  *)
(* and nothing else, repositories is untouched, and the run never acts     *)
(* again.                                                                  *)
C8_TransportFailure ==
    [][\A i \in Runs :
          /\ (calls[i].pc = "fetching" /\ calls'[i].resp.kind = "reject") =>
                /\ error' = calls'[i].resp.message
                /\ error' # null
                /\ isLoading' = FALSE
                /\ repositories' = repositories
                /\ calls'[i].sent = <<"setFetchError">>
                /\ calls'[i].pc = "failed"
          /\ calls[i].pc = "failed" => calls'[i] = calls[i]]_vars

(* a run failed in transport and something else happened afterwards *)
C8_Witness ==
    \E i \in Runs : /\ calls[i].pc = "failed"
                    /\ error = NetworkErrorMessage
                    /\ ~isLoading
                    /\ now > calls[i].start + DebounceMs

(* ------------------------------- C9 ------------------------------------ *)
PositionIn(seq, x) == CHOOSE k \in 1..Len(seq) : seq[k] = x

(* C9: sortedRepositories holds exactly the records of the current         *)
(* repositories, each once, in descending star order, records of equal     *)
(* star count in their repositories order.                                 *)
C9_SortedView ==
    /\ Len(sortedRepositories) = Len(repositories)
    /\ \A k \in 1..Len(repositories) :
          Cardinality({j \in 1..Len(sortedRepositories) : sortedRepositories[j] = repositories[k]}) = 1
    /\ \A j, k \in 1..Len(sortedRepositories) :
          j < k =>
             /\ sortedRepositories[j].stargazers_count >= sortedRepositories[k].stargazers_count
             /\ sortedRepositories[j].stargazers_count = sortedRepositories[k].stargazers_count
                   => PositionIn(repositories, sortedRepositories[j])
                        < PositionIn(repositories, sortedRepositories[k])

(* a result with a tie and an inversion replaced an earlier, other result *)
C9_Witness ==
    /\ Len(repositories) >= 2
    /\ sortedRepositories # repositories
    /\ \E j, k \in 1..Len(repositories) :
          j # k /\ repositories[j].stargazers_count = repositories[k].stargazers_count
    /\ \E i \in Runs : i < Latest /\ calls[i].pc = "done" /\ calls[i].resp.body # repositories

(* ------------------------------- C10 ----------------------------------- *)
(* C10: a request is only ever issued by a run leaving its debounce wait,  *)
(* and that run has issued none before: a run issues at most one request,  *)
(* and a run that ended, in an error or otherwise, issues no other.        *)
C10_NoRetry ==
    [][requests' # requests =>
          \E i \in Runs :
              /\ requests' = Append(requests, [call |-> i, username |-> calls[i].username])
              /\ calls[i].pc = "debounce"
              /\ RequestsOf(i) = {}]_vars

(* both kinds of error have ended a run, and only those two requests exist *)
C10_Witness ==
    /\ \E i \in Runs : calls[i].pc = "failed"
    /\ \E i \in Runs : calls[i].pc = "done" /\ calls[i].resp.status # StatusOk
    /\ Len(requests) = 2
    /\ now = MaxTime

(* ------------------------------- C11 ----------------------------------- *)
DefaultRequest == [call |-> 1, username |-> DefaultUsername]

(* what holds while the mount-time run is the only one *)
MountRunAlone ==
    /\ calls[1].username = DefaultUsername
    /\ username = DefaultUsername
    /\ calls[1].pc = "debounce" => requests = <<>>
    /\ calls[1].pc # "debounce" => requests = <<DefaultRequest>>
    /\ calls[1].pc \in {"debounce", "fetching", "parsing"} =>
          (isLoading /\ repositories = <<>> /\ error = null)
    /\ calls[1].pc \in {"done", "failed"} =>
          <<repositories, error, isLoading>> = OutcomeOf(calls[1])

(* C11: mounting alone dispatches setUsername('keajs'): before the mount   *)
(* nothing runs; from the mount on, and while no other setUsername is      *)
(* dispatched, the state is loading until the one request, issued for      *)
(* 'keajs', has ended, and then holds that request's outcome; and the      *)
(* request is eventually issued unless another setUsername comes first.    *)
C11_MountFetchesDefault ==
    /\ [](~mounted => (calls = <<>> /\ requests = <<>> /\ ~isLoading))
    /\ [](mounted => Latest >= 1)
    /\ []((mounted /\ Latest = 1) => MountRunAlone)
    /\ (mounted /\ Latest = 1) ~> (Latest > 1 \/ requests = <<DefaultRequest>>)

(* the mount-time request returned repositories and they are shown *)
C11_Witness ==
    /\ Latest = 1
    /\ calls[1].pc = "done"
    /\ requests = <<DefaultRequest>>
    /\ Len(repositories) >= 2
    /\ ~isLoading

(* ------------------------------- C12 ----------------------------------- *)
(* C12: no run of the listener ends in an exception that leaves it.        *)
C12_NoUncaughtError == \A i \in Runs : calls[i].pc # "threw"

(* ------------------------------- C13 ----------------------------------- *)
(* C13: a step of a run that has been superseded changes none of           *)
(* repositories, error and isLoading and dispatches nothing.               *)
C13_StaleRunsNeverMutate ==
    [][\A i \in Runs :
          (i < Latest /\ calls'[i] # calls[i]) =>
              /\ UNCHANGED <<repositories, error, isLoading>>
              /\ calls'[i].sent = calls[i].sent]_vars

(* ------------------------------- C14 ----------------------------------- *)
(* C14: while the most recent run is in its debounce wait, fetching or     *)
(* parsing, isLoading is true.                                             *)
C14_LoadingWhileLatestPending ==
    (Latest >= 1 /\ calls[Latest].pc \in {"debounce", "fetching", "parsing"}) => isLoading

(* ------------------------------- C15 ----------------------------------- *)
(* C15: once every run has ended, so that nothing more happens until the   *)
(* next setUsername, isLoading is false.                                   *)
C15_LoadingEnds == Quiescent => ~isLoading

(* ------------------------------- C16 ----------------------------------- *)
(* C16: whenever isLoading is true, repositories is empty and error is     *)
(* null.                                                                   *)
C16_LoadingMeansCleared == isLoading => (repositories = <<>> /\ error = null)

(* loading again after an earlier run showed a result or an error, while   *)
(* another superseded run is still to act                                  *)
C16_Witness ==
    /\ isLoading
    /\ \E i \in Runs : i < Latest /\ calls[i].sent # <<>>
    /\ \E i \in Runs : i < Latest /\ calls[i].pc \in {"fetching", "parsing"}

(* ------------------------------- C17 ----------------------------------- *)
(* C17: a request is issued for the username held in state at that step.   *)
C17_RequestForCurrentUsername ==
    [][requests' # requests =>
          /\ Len(requests') = Len(requests) + 1
          /\ requests'[Len(requests')].username = username
          /\ requests'[Len(requests')].username = calls[Latest].username]_vars

(* a request went out for a username typed after the mount, while the      *)
(* mount-time run had been superseded in its wait                          *)
C17_Witness ==
    /\ Latest >= 2
    /\ calls[1].pc = "cancelled"
    /\ RequestsOf(1) = {}
    /\ \E k \in 1..Len(requests) : requests[k].username # DefaultUsername

(* ------------------------------- C18 ----------------------------------- *)
(* C18: username is the default before any setUsername and the argument    *)
(* of the most recent one afterwards; no other dispatch changes it.        *)
C18_UsernameOnlyBySetUsername ==
    username = IF calls = <<>> THEN DefaultUsername ELSE calls[Latest].username

(* a current and a superseded run have both dispatched, under a username   *)
(* other than the default                                                  *)
C18_Witness ==
    /\ username # DefaultUsername
    /\ \E i \in Runs : i < Latest /\ calls[i].sent # <<>> /\ calls[i].username # username
    /\ calls[Latest].sent # <<>>

====
